---- MODULE Spec2Model ----
(***************************************************************************)
(* Model of package_control/clients/bitbucket_client.py: BitBucketClient,  *)
(* its two public operations download_info and repo_info, and the helpers  *)
(* they share.  Python strings are TLA+ strings, taken apart character by  *)
(* character with Len, SubSeq and \o.  A call runs as a sequence of steps, *)
(* one per blocking fetch_json call.                                       *)
(***************************************************************************)
EXTENDS Integers, Sequences, FiniteSets, TLC

(***************************************************************************)
(* Python values that may be None, False, a string or a dict are tagged.   *)
(***************************************************************************)
None == [type |-> "NoneType"]

False == [type |-> "bool", value |-> FALSE]

Str(s) == [type |-> "str", value |-> s]

Dict(d) == [type |-> "dict", value |-> d]

\* A local name that has not been assigned in the running call.
Unbound == [type |-> "unbound"]

\* Python truth value of a tagged value (the `not x` / `x or y` tests).
Truthy(x) ==
  CASE x.type = "NoneType" -> FALSE
    [] x.type = "bool" -> x.value
    [] x.type = "str" -> x.value # ""
    [] x.type = "dict" -> DOMAIN x.value # {}
    [] OTHER -> FALSE

\* Python `a or b`.
Or(a, b) == IF Truthy(a) THEN a ELSE b

(***************************************************************************)
(* Characters and strings.                                                 *)
(***************************************************************************)
Char(s, i) == SubSeq(s, i, i)

Min(a, b) == IF a < b THEN a ELSE b

\* s[0:n]
Slice0(s, n) == SubSeq(s, 1, Min(n, Len(s)))

Upper == "ABCDEFGHIJKLMNOPQRSTUVWXYZ"

Lower == "abcdefghijklmnopqrstuvwxyz"

\* str.lower() of one character
LowerChar(c) ==
  IF \E i \in 1..Len(Upper) : Char(Upper, i) = c
  THEN Char(Lower, CHOOSE i \in 1..Len(Upper) : Char(Upper, i) = c)
  ELSE c

RECURSIVE lower(_)
\* str.lower()
lower(s) == IF s = "" THEN "" ELSE LowerChar(Head(s)) \o lower(Tail(s))

(***************************************************************************)
(* Regular expressions, as the patterns of the module use them: a pattern  *)
(* is a sequence of items (a character class with a repetition range),     *)
(* matched from the start of the string (re.match), greedily and with      *)
(* backtracking, and closed by `$`.                                        *)
(***************************************************************************)
Lit(c) == [neg |-> FALSE, chars |-> {c}, min |-> 1, max |-> 1]

\* c?
Opt(c) == [neg |-> FALSE, chars |-> {c}, min |-> 0, max |-> 1]

\* `.` : any character but a newline
Dot == [neg |-> TRUE, chars |-> {"\n"}, min |-> 1, max |-> 1]

\* [^...]+   (max 0 stands for no upper limit)
NotPlus(cs) == [neg |-> TRUE, chars |-> cs, min |-> 1, max |-> 0]

\* the items of a literal string
Lits(s) == [i \in 1..Len(s) |-> Lit(Char(s, i))]

InClass(it, c) == IF it.neg THEN c \notin it.chars ELSE c \in it.chars

RECURSIVE Run(_, _, _, _)
\* the longest run of characters of the class of `it` that starts after pos,
\* no longer than limit
Run(it, s, pos, limit) ==
  IF limit = 0 \/ pos >= Len(s) \/ ~InClass(it, Char(s, pos + 1))
  THEN 0
  ELSE 1 + Run(it, s, pos + 1, limit - 1)

\* `$` without re.MULTILINE: the end of the string, or just before a newline
\* that ends the string
AtDollar(s, pos) ==
  \/ pos = Len(s)
  \/ pos = Len(s) - 1 /\ Char(s, Len(s)) = "\n"

NoMatch == <<-1>>

RECURSIVE MatchFrom(_, _, _, _)
RECURSIVE TryLen(_, _, _, _, _)
\* The end positions of the items k.. of the pattern matched after pos, or
\* NoMatch.
MatchFrom(items, k, s, pos) ==
  IF k > Len(items)
  THEN IF AtDollar(s, pos) THEN <<>> ELSE NoMatch
  ELSE LET it == items[k]
           limit == IF it.max = 0 THEN Len(s) ELSE it.max
       IN  TryLen(items, k, s, pos, Run(it, s, pos, limit))

\* Greedy repetition: the longest count first, one less on failure.
TryLen(items, k, s, pos, n) ==
  IF n < items[k].min
  THEN NoMatch
  ELSE LET rest == MatchFrom(items, k + 1, s, pos + n)
       IN  IF rest # NoMatch
           THEN <<pos + n>> \o rest
           ELSE TryLen(items, k, s, pos, n - 1)

\* re.match(pattern + '$', s): the match object (the end position of every
\* item), or NoMatch
match(items, s) == MatchFrom(items, 1, s, 0)

\* m.group(..) of a group that spans the items from..to of the pattern
group(s, m, from, to) ==
  SubSeq(s, (IF from = 1 THEN 0 ELSE m[from - 1]) + 1, m[to])

\* re.sub('^v', '', s)
SubLeadingV(s) == IF s # "" /\ Head(s) = "v" THEN Tail(s) ELSE s

RECURSIVE SubClass(_, _, _)
\* re.sub('[...]', repl, s)
SubClass(cs, repl, s) ==
  IF s = ""
  THEN ""
  ELSE (IF Head(s) \in cs THEN repl ELSE Head(s)) \o SubClass(cs, repl, Tail(s))

(***************************************************************************)
(* The URL patterns.                                                       *)
(***************************************************************************)
\* https?://bitbucket.org/    (the dot of the pattern is not escaped)
HostPrefix ==
  Lits("http") \o <<Opt("s")>> \o Lits("://bitbucket") \o <<Dot>> \o Lits("org/")

\* 'https?://bitbucket.org/([^/]+/[^#/]+)/?#tags$'
TagsPattern ==
  HostPrefix \o <<NotPlus({"/"}), Lit("/"), NotPlus({"#", "/"}), Opt("/")>>
             \o Lits("#tags")

\* 'https?://bitbucket.org/([^/]+/[^/]+)/?$'
RepoPattern ==
  HostPrefix \o <<NotPlus({"/"}), Lit("/"), NotPlus({"/"}), Opt("/")>>

\* 'https?://bitbucket.org/([^/]+/[^/]+)/src/([^/]+)/?$'
BranchPattern ==
  HostPrefix \o <<NotPlus({"/"}), Lit("/"), NotPlus({"/"})>> \o Lits("/src/")
             \o <<NotPlus({"/"}), Opt("/")>>

\* the items of group 1 in the three patterns, and of group 2 in BranchPattern
Group1From == Len(HostPrefix) + 1

Group1To == Len(HostPrefix) + 3

Group2At == Len(HostPrefix) + 3 + Len("/src/") + 1

tags_match(url) == match(TagsPattern, url)

repo_match(url) == match(RepoPattern, url)

branch_match(url) == match(BranchPattern, url)

\* 'https://api.bitbucket.org/1.0/repositories/%s%s' % (user_repo, suffix)
_make_api_url(user_repo, suffix) ==
  "https://api.bitbucket.org/1.0/repositories/" \o user_repo \o suffix

(***************************************************************************)
(* Semantic versions: version_filter and version_sort of ..versions.       *)
(***************************************************************************)
Digits == "0123456789"

IsDigit(c) == \E i \in 1..Len(Digits) : Char(Digits, i) = c

DigitVal(c) == (CHOOSE i \in 1..Len(Digits) : Char(Digits, i) = c) - 1

IsNumber(s) == s # "" /\ \A i \in 1..Len(s) : IsDigit(Char(s, i))

RECURSIVE ToInt(_)
ToInt(s) ==
  IF s = "" THEN 0
  ELSE 10 * ToInt(SubSeq(s, 1, Len(s) - 1)) + DigitVal(Char(s, Len(s)))

\* the position of the first c in s, or Len(s) + 1
IndexOf(s, c) ==
  IF \E i \in 1..Len(s) : Char(s, i) = c
  THEN CHOOSE i \in 1..Len(s) :
         Char(s, i) = c /\ \A j \in 1..(i - 1) : Char(s, j) # c
  ELSE Len(s) + 1

Before(s, c) == SubSeq(s, 1, IndexOf(s, c) - 1)

After(s, c) == SubSeq(s, IndexOf(s, c) + 1, Len(s))

\* the characters an identifier of a prerelease may hold, in ASCII order
PreChars == "-.0123456789ABCDEFGHIJKLMNOPQRSTUVWXYZabcdefghijklmnopqrstuvwxyz"

Rank(c) == CHOOSE i \in 1..Len(PreChars) : Char(PreChars, i) = c

\* major.minor.patch, then an optional -prerelease
SemVerValid(s) ==
  LET core == Before(s, "-")
      pre == After(s, "-")
      minorPatch == After(core, ".")
  IN  /\ IsNumber(Before(core, "."))
      /\ IsNumber(Before(minorPatch, "."))
      /\ IsNumber(After(minorPatch, "."))
      /\ IndexOf(s, "-") <= Len(s) =>
           /\ pre # ""
           /\ \A i \in 1..Len(pre) :
                \E j \in 1..Len(PreChars) : Char(PreChars, j) = Char(pre, i)

SemVer(s) ==
  LET core == Before(s, "-")
      minorPatch == After(core, ".")
  IN  [major |-> ToInt(Before(core, ".")),
       minor |-> ToInt(Before(minorPatch, ".")),
       patch |-> ToInt(After(minorPatch, ".")),
       prerelease |-> IF IndexOf(s, "-") <= Len(s)
                      THEN Str(After(s, "-")) ELSE None]

RECURSIVE StrLess(_, _)
StrLess(a, b) ==
  IF b = "" THEN FALSE
  ELSE IF a = "" THEN TRUE
  ELSE IF Head(a) = Head(b) THEN StrLess(Tail(a), Tail(b))
  ELSE Rank(Head(a)) < Rank(Head(b))

\* precedence of two semantic versions: a release is above its prereleases
SemVerLess(a, b) ==
  IF a.major # b.major THEN a.major < b.major
  ELSE IF a.minor # b.minor THEN a.minor < b.minor
  ELSE IF a.patch # b.patch THEN a.patch < b.patch
  ELSE IF a.prerelease = None THEN FALSE
  ELSE IF b.prerelease = None THEN TRUE
  ELSE StrLess(a.prerelease.value, b.prerelease.value)

\* the version a tag name stands for: one leading v is not part of it
TagVersion(tag) == SemVer(SubLeadingV(tag))

RECURSIVE version_filter(_, _)
\* keeps, in order, the names that are semantic versions, and without
\* allow_prereleases only the releases among them
version_filter(versions, allow_prereleases) ==
  IF versions = <<>> THEN <<>>
  ELSE LET v == Head(versions)
           keep == /\ SemVerValid(SubLeadingV(v))
                   /\ allow_prereleases \/ TagVersion(v).prerelease = None
       IN  (IF keep THEN <<v>> ELSE <<>>)
             \o version_filter(Tail(versions), allow_prereleases)

RECURSIVE InsertDescending(_, _)
\* v put behind every element that is not below it (a stable sort)
InsertDescending(sorted, v) ==
  IF sorted = <<>> THEN <<v>>
  ELSE IF SemVerLess(TagVersion(Head(sorted)), TagVersion(v))
       THEN <<v>> \o sorted
       ELSE <<Head(sorted)>> \o InsertDescending(Tail(sorted), v)

RECURSIVE SortDescending(_)
SortDescending(versions) ==
  IF versions = <<>> THEN <<>>
  ELSE InsertDescending(SortDescending(SubSeq(versions, 1, Len(versions) - 1)),
                        versions[Len(versions)])

RECURSIVE Reverse(_)
Reverse(q) == IF q = <<>> THEN <<>> ELSE Reverse(Tail(q)) \o <<Head(q)>>

\* sorted by semantic version; reverse: the highest first
version_sort(versions, reverse) ==
  IF reverse THEN SortDescending(versions)
  ELSE Reverse(SortDescending(Reverse(versions)))

(***************************************************************************)
(* The pure parts of the client's methods.                                 *)
(***************************************************************************)
\* A predefined list of readme filenames to look for
_readme_filenames ==
  {"readme", "readme.txt", "readme.md", "readme.mkd", "readme.mdown",
   "readme.markdown", "readme.textile", "readme.creole", "readme.rst"}

\* _user_repo_branch up to its fetch: the user/repo of the URL, the branch
\* when the URL names it, and whether the main branch has to be fetched.
_user_repo_branch(url) ==
  IF repo_match(url) # NoMatch
  THEN [user_repo |-> Str(group(url, repo_match(url), Group1From, Group1To)),
        branch |-> Unbound, main_branch |-> TRUE]
  ELSE IF branch_match(url) # NoMatch
  THEN [user_repo |-> Str(group(url, branch_match(url), Group1From, Group1To)),
        branch |-> Str(group(url, branch_match(url), Group2At, Group2At)),
        main_branch |-> FALSE]
  ELSE [user_repo |-> None, branch |-> None, main_branch |-> FALSE]

\* eligible_tags with the sort left ascending
eligible_tags_ascending(tags_list, settings) ==
  version_sort(version_filter(tags_list.keys, settings.install_prereleases), FALSE)

\* the tags of a tag list in the order _commit_info considers them
eligible_tags(tags_list, settings) ==
  version_sort(version_filter(tags_list.keys, settings.install_prereleases), TRUE)

\* commit = tags[0]
newest(tags) == tags[1]

\* the number of characters of the timestamp that are kept
TimestampLen == 19

\* commit_date without the truncation
commit_date_whole(commit_info) == commit_info.timestamp

\* commit_info['timestamp'][0:19]
commit_date(commit_info) == Slice0(commit_info.timestamp, TimestampLen)

\* version, after `if not version: version = re.sub('[\-: ]', '.', commit_date)`
commit_version(version, date) ==
  IF ~Truthy(version) THEN Str(SubClass({"-", ":", " "}, ".", date)) ELSE version

\* the dict _commit_info returns, from the changeset it fetched
_commit_info_result(user_repo, commit, version, commit_info) ==
  Dict([user_repo |-> user_repo.value,
        timestamp |-> commit_date(commit_info),
        commit |-> commit.value,
        version |-> commit_version(version, commit_date(commit_info)).value])

\* download_info_result with every false result of _commit_info turned to None
download_info_result_none(commit_info) ==
  IF ~Truthy(commit_info)
  THEN None
  ELSE Dict([version |-> commit_info.value.version,
             url |-> "https://bitbucket.org/" \o commit_info.value.user_repo
                       \o "/get/" \o commit_info.value.commit \o ".zip",
             date |-> commit_info.value.timestamp])

\* what download_info returns, from what _commit_info returned
download_info_result(commit_info) ==
  IF ~Truthy(commit_info)
  THEN commit_info
  ELSE Dict([version |-> commit_info.value.version,
             url |-> "https://bitbucket.org/" \o commit_info.value.user_repo
                       \o "/get/" \o commit_info.value.commit \o ".zip",
             date |-> commit_info.value.timestamp])

RECURSIVE first_readme_lowered(_)
\* first_readme giving the path as it was compared
first_readme_lowered(files) ==
  IF files = <<>> THEN None
  ELSE IF lower(Head(files).path) \in _readme_filenames
       THEN Str(lower(Head(files).path))
       ELSE first_readme_lowered(Tail(files))

RECURSIVE first_readme(_)
\* the path of the first entry that looks like a readme, or None
first_readme(files) ==
  IF files = <<>> THEN None
  ELSE IF lower(Head(files).path) \in _readme_filenames
       THEN Str(Head(files).path)
       ELSE first_readme(Tail(files))

\* what _readme_url returns, from the listing it fetched
_readme_url_result(user_repo, branch, root_dir_info) ==
  IF first_readme(root_dir_info.files) = None
  THEN None
  ELSE Str("https://bitbucket.org/" \o user_repo.value \o "/raw/" \o branch.value
             \o "/" \o first_readme(root_dir_info.files).value)

\* repo_info_result with the issues URL given whatever has_issues says
repo_info_result_issues(url, user_repo, info, readme) ==
  Dict([name |-> info.name,
        description |-> Or(info.description, Str("No description provided")),
        homepage |-> Or(info.website, Str(url)),
        author |-> info.owner,
        donate |-> "https://www.gittip.com/on/bitbucket/" \o info.owner \o "/",
        readme |-> readme,
        issues |-> Str("https://bitbucket.org/" \o user_repo.value \o "/issues")])

\* repo_info_result with the homepage falling back to a URL built anew
repo_info_result_homepage(url, user_repo, info, readme) ==
  Dict([name |-> info.name,
        description |-> Or(info.description, Str("No description provided")),
        homepage |-> Or(info.website, Str("https://bitbucket.org/" \o user_repo.value)),
        author |-> info.owner,
        donate |-> "https://www.gittip.com/on/bitbucket/" \o info.owner \o "/",
        readme |-> readme,
        issues |-> IF info.has_issues
                   THEN Str("https://bitbucket.org/" \o user_repo.value \o "/issues")
                   ELSE None])

\* the dict repo_info returns
repo_info_result(url, user_repo, info, readme) ==
  Dict([name |-> info.name,
        description |-> Or(info.description, Str("No description provided")),
        homepage |-> Or(info.website, Str(url)),
        author |-> info.owner,
        donate |-> "https://www.gittip.com/on/bitbucket/" \o info.owner \o "/",
        readme |-> readme,
        issues |-> IF info.has_issues
                   THEN Str("https://bitbucket.org/" \o user_repo.value \o "/issues")
                   ELSE None])

(***************************************************************************)
(* The inputs: the URLs the operations are called with, and what the       *)
(* BitBucket API may answer.                                               *)
(***************************************************************************)
\* the longest tag list and the longest root directory listing
MaxTags == 3

MaxFiles == 2

Urls ==
  {"https://bitbucket.org/u/r", "http://bitbucket.org/u/r/",
   "https://bitbucket.org/u/r/src/dev", "http://bitbucket.org/u/r/src/dev/",
   "https://bitbucket.org/u/r/#tags", "https://bitbucket.org/u/r#tags",
   "https://bitbucketXorg/u/r",
   "https://github.com/u/r", "https://bitbucket.org/u",
   "https://bitbucket.org/u/r/src/a/b", "https://bitbucket.org/u/r/wiki",
   "https://bitbucket.org/u/r/#tagsx"}

TagNames == {"v1.0.0", "v2.0.0", "v1.5.0", "v3.0.0-rc1", "latest"}

Timestamps ==
  {"2014-03-12T10:00:00+00:00", "2014-03-12 10:00:00+00:00", "2012-07-24 20:57:32"}

BranchNames == {"master", "default"}

Paths == {"README.MD", "readme.rst", "setup.py"}

\* the sequences of at most n different elements of S
Listings(S, n) ==
  UNION {{q \in [1..k -> S] : \A i, j \in 1..k : q[i] = q[j] => i = j} : k \in 0..n}

Errors ==
  {[type |-> "error", exc |-> e] : e \in {"DownloaderException", "ClientException"}}

IsError(resp) == resp.type = "error"

\* the JSON of each resource; of the tag mapping only the order of its keys
\* matters to the client
Responses(kind) ==
  Errors \cup
  CASE kind = "tags" ->
         {[type |-> "json", keys |-> q] : q \in Listings(TagNames, MaxTags)}
    [] kind = "main-branch" ->
         {[type |-> "json", name |-> b] : b \in BranchNames}
    [] kind = "changesets" ->
         {[type |-> "json", timestamp |-> t] : t \in Timestamps}
    [] kind = "repository" ->
         {[type |-> "json", name |-> "R", owner |-> "owner", description |-> d,
           website |-> w, has_issues |-> h] :
            d \in {Str(""), Str("A package"), None},
            w \in {Str(""), Str("http://example.com")},
            h \in BOOLEAN}
    [] kind = "src" ->
         {[type |-> "json", files |-> [i \in DOMAIN q |-> [path |-> q[i]]]] :
            q \in Listings(Paths, MaxFiles)}

(***************************************************************************)
(* The state: the client, the running call with its local names, the       *)
(* fetches it has issued, and the upstream as far as it has answered.      *)
(***************************************************************************)
VARIABLES
  self,       \* the client: its settings
  op,         \* the operation called, "none" before the first call
  url,        \* its argument
  pc,         \* "idle", the fetch the call is about to issue, or "done"
  user_repo,  \* locals of the call
  branch,
  commit,
  version,
  info,
  log,        \* the fetch_json calls of the call: <<[url, prefer_cached]>>
  result,     \* how the call ended: a returned value or a raised error
  upstream,   \* API URL -> response, for the URLs fetched so far
  earlier     \* <<>> or the outcome of the first call with these arguments

vars ==
  <<self, op, url, pc, user_repo, branch, commit, version, info, log, result,
    upstream, earlier>>

NoResult == [kind |-> "none"]

Return(v) == [kind |-> "return", value |-> v]

Raise(e) == [kind |-> "raise", exc |-> e]

Init ==
  /\ self \in {[settings |-> [install_prereleases |-> b]] : b \in BOOLEAN}
  /\ op = "none"
  /\ url = ""
  /\ pc = "idle"
  /\ user_repo = Unbound
  /\ branch = Unbound
  /\ commit = Unbound
  /\ version = Unbound
  /\ info = Unbound
  /\ log = <<>>
  /\ result = NoResult
  /\ upstream = <<>>
  /\ earlier = <<>>

\* The calls that are explored: any call while nothing is known of the
\* upstream, and the same call again while the upstream stays as it is.
MayCall(o, u) == pc = "idle" \/ (pc = "done" /\ op = o /\ url = u)

\* A call starts: the outcome of the first call with these arguments is kept
\* for comparison, and the fetches are counted anew.
Enter(o, u) ==
  /\ MayCall(o, u)
  /\ op' = o
  /\ url' = u
  /\ log' = <<>>
  /\ earlier' = IF pc = "idle" THEN <<>>
                ELSE IF earlier = <<>> THEN <<[result |-> result, log |-> log]>>
                ELSE earlier
  /\ UNCHANGED <<self, upstream>>

\* what the upstream may answer for u: the same as it answered before
Answers(u, kind) ==
  IF u \in DOMAIN upstream THEN {upstream[u]} ELSE Responses(kind)

\* fetch_json(u, prefer_cached), answered by resp
fetch_json(u, prefer_cached, resp) ==
  /\ upstream' = (u :> resp) @@ upstream
  /\ log' = Append(log, [url |-> u, prefer_cached |-> prefer_cached])

\* an error of fetch_json leaves the call as it is raised
Propagate(resp) ==
  /\ result' = Raise(resp.exc)
  /\ pc' = "done"

(***************************************************************************)
(* download_info / _commit_info                                            *)
(***************************************************************************)
\* download_info(u), up to the first fetch of _commit_info
download_info(u) ==
  /\ Enter("download_info", u)
  /\ info' = Unbound
  /\ version' = None
  /\ IF tags_match(u) # NoMatch
     THEN /\ user_repo' = Str(group(u, tags_match(u), Group1From, Group1To))
          /\ branch' = Unbound
          /\ commit' = Unbound
          /\ pc' = "tags"
          /\ result' = NoResult
     ELSE LET urb == _user_repo_branch(u)
          IN  /\ user_repo' = urb.user_repo
              /\ branch' = urb.branch
              /\ commit' = urb.branch
              /\ IF urb.main_branch
                 THEN pc' = "main-branch" /\ result' = NoResult
                 ELSE IF ~Truthy(urb.user_repo)
                 THEN /\ pc' = "done"
                      /\ result' = Return(download_info_result(urb.user_repo))
                 ELSE pc' = "changesets" /\ result' = NoResult

\* the tag list is fetched and the newest eligible tag becomes the commit
fetch_tags ==
  /\ pc = "tags"
  /\ \E resp \in Answers(_make_api_url(user_repo.value, "/tags"), "tags") :
       /\ fetch_json(_make_api_url(user_repo.value, "/tags"), FALSE, resp)
       /\ IF IsError(resp)
          THEN Propagate(resp) /\ UNCHANGED <<commit, version>>
          ELSE LET tags == eligible_tags(resp, self.settings)
               IN  IF tags = <<>>
                   THEN /\ result' = Return(download_info_result(False))
                        /\ pc' = "done"
                        /\ UNCHANGED <<commit, version>>
                   ELSE /\ commit' = Str(newest(tags))
                        /\ version' = Str(SubLeadingV(newest(tags)))
                        /\ pc' = "changesets"
                        /\ UNCHANGED result
  /\ UNCHANGED <<self, op, url, user_repo, branch, info, earlier>>

\* _main_branch_name taking the branch to be master when the fetch fails
_main_branch_name_fallback ==
  /\ pc = "main-branch"
  /\ \E resp \in Answers(_make_api_url(user_repo.value, "/main-branch"),
                          "main-branch") :
       /\ fetch_json(_make_api_url(user_repo.value, "/main-branch"), TRUE, resp)
       /\ LET name == IF IsError(resp) THEN "master" ELSE resp.name
          IN  /\ branch' = Str(name)
              /\ commit' = IF op = "download_info" THEN Str(name) ELSE commit
              /\ pc' = IF op = "download_info" THEN "changesets" ELSE "repository"
              /\ UNCHANGED result
  /\ UNCHANGED <<self, op, url, user_repo, version, info, earlier>>

\* _main_branch_name keeping the name it fetched on the client, and fetching
\* it no more once it is kept
_main_branch_name_kept ==
  /\ pc = "main-branch"
  /\ IF "main_branch" \in DOMAIN self
     THEN /\ branch' = self.main_branch
          /\ commit' = IF op = "download_info" THEN self.main_branch ELSE commit
          /\ pc' = IF op = "download_info" THEN "changesets" ELSE "repository"
          /\ UNCHANGED <<self, log, upstream, result>>
     ELSE \E resp \in Answers(_make_api_url(user_repo.value, "/main-branch"),
                              "main-branch") :
            /\ fetch_json(_make_api_url(user_repo.value, "/main-branch"), TRUE, resp)
            /\ IF IsError(resp)
               THEN Propagate(resp) /\ UNCHANGED <<self, branch, commit>>
               ELSE /\ branch' = Str(resp.name)
                    /\ self' = [main_branch |-> Str(resp.name)] @@ self
                    /\ commit' = IF op = "download_info" THEN Str(resp.name) ELSE commit
                    /\ pc' = IF op = "download_info" THEN "changesets" ELSE "repository"
                    /\ UNCHANGED result
  /\ UNCHANGED <<op, url, user_repo, version, info, earlier>>

\* _main_branch_name, and the return of _user_repo_branch to its caller
_main_branch_name ==
  /\ pc = "main-branch"
  /\ \E resp \in Answers(_make_api_url(user_repo.value, "/main-branch"),
                          "main-branch") :
       /\ fetch_json(_make_api_url(user_repo.value, "/main-branch"), TRUE, resp)
       /\ IF IsError(resp)
          THEN Propagate(resp) /\ UNCHANGED <<branch, commit>>
          ELSE /\ branch' = Str(resp.name)
               /\ commit' = IF op = "download_info" THEN Str(resp.name) ELSE commit
               /\ pc' = IF op = "download_info" THEN "changesets" ELSE "repository"
               /\ UNCHANGED result
  /\ UNCHANGED <<self, op, url, user_repo, version, info, earlier>>

\* the changeset is fetched and download_info returns
fetch_changeset ==
  /\ pc = "changesets"
  /\ \E resp \in Answers(_make_api_url(user_repo.value,
                                        "/changesets/" \o commit.value),
                          "changesets") :
       /\ fetch_json(_make_api_url(user_repo.value, "/changesets/" \o commit.value),
                     FALSE, resp)
       /\ IF IsError(resp)
          THEN Propagate(resp) /\ UNCHANGED version
          ELSE /\ version' = commit_version(version, commit_date(resp))
               /\ result' = Return(download_info_result(
                                _commit_info_result(user_repo, commit, version, resp)))
               /\ pc' = "done"
  /\ UNCHANGED <<self, op, url, user_repo, branch, commit, info, earlier>>

(***************************************************************************)
(* repo_info / _readme_url                                                 *)
(***************************************************************************)
\* repo_info(u), up to its first fetch
repo_info(u) ==
  /\ Enter("repo_info", u)
  /\ LET urb == _user_repo_branch(u)
     IN  /\ user_repo' = urb.user_repo
         /\ branch' = urb.branch
         /\ IF urb.main_branch
            THEN pc' = "main-branch" /\ result' = NoResult
            ELSE IF ~Truthy(urb.user_repo)
            THEN pc' = "done" /\ result' = Return(urb.user_repo)
            ELSE pc' = "repository" /\ result' = NoResult
  /\ commit' = Unbound
  /\ version' = Unbound
  /\ info' = Unbound

\* the repository's metadata is fetched
fetch_repository ==
  /\ pc = "repository"
  /\ \E resp \in Answers(_make_api_url(user_repo.value, ""), "repository") :
       /\ fetch_json(_make_api_url(user_repo.value, ""), FALSE, resp)
       /\ IF IsError(resp)
          THEN Propagate(resp) /\ UNCHANGED info
          ELSE info' = resp /\ pc' = "src" /\ UNCHANGED result
  /\ UNCHANGED <<self, op, url, user_repo, branch, commit, version, earlier>>

\* _readme_url fetches the root listing of the branch, and repo_info returns
_readme_url ==
  /\ pc = "src"
  /\ \E resp \in Answers(_make_api_url(user_repo.value,
                                        "/src/" \o branch.value \o "/"), "src") :
       /\ fetch_json(_make_api_url(user_repo.value, "/src/" \o branch.value \o "/"),
                     FALSE, resp)
       /\ IF IsError(resp)
          THEN Propagate(resp)
          ELSE /\ result' = Return(repo_info_result(url, user_repo, info,
                                     _readme_url_result(user_repo, branch, resp)))
               /\ pc' = "done"
  /\ UNCHANGED <<self, op, url, user_repo, branch, commit, version, info, earlier>>

\* Between calls the upstream may change: nothing is known of it any more,
\* and the finished call is forgotten.  The client stays as it is.
UpstreamChanges ==
  /\ pc = "done"
  /\ pc' = "idle"
  /\ op' = "none"
  /\ url' = ""
  /\ user_repo' = Unbound
  /\ branch' = Unbound
  /\ commit' = Unbound
  /\ version' = Unbound
  /\ info' = Unbound
  /\ log' = <<>>
  /\ result' = NoResult
  /\ upstream' = <<>>
  /\ earlier' = <<>>
  /\ UNCHANGED self

Next ==
  \/ \E u \in Urls : download_info(u)
  \/ \E u \in Urls : repo_info(u)
  \/ fetch_tags
  \/ _main_branch_name
  \/ fetch_changeset
  \/ fetch_repository
  \/ _readme_url
  \/ UpstreamChanges

Spec == Init /\ [][Next]_vars

(***************************************************************************)
(* What the claims speak of.                                               *)
(***************************************************************************)
Done == pc = "done"

Returned == Done /\ result.kind = "return"

Raised == Done /\ result.kind = "raise"

Populated == Returned /\ result.value.type = "dict"

\* the shapes of a URL, each as its pattern recognizes it
IsTagsUrl(u) == tags_match(u) # NoMatch

IsRepoUrl(u) == repo_match(u) # NoMatch

IsBranchUrl(u) == branch_match(u) # NoMatch

\* the path of a URL behind scheme and host, and its first two segments
UrlPath(u) == After(After(After(u, "/"), "/"), "/")

OwnerRepo(u) ==
  Before(UrlPath(u), "/") \o "/" \o Before(After(UrlPath(u), "/"), "/")

\* the response to the i-th fetch of the call
Response(i) == upstream[log[i].url]

\* the owner/repo of a tag-listing URL: the marker is no part of it
TagsOwnerRepo(u) == Before(OwnerRepo(u), "#")

\* the resource the i-th fetch of the call asks for: the path segment behind
\* .../repositories/{owner}/{repo} in its URL
Kind(i) ==
  LET path == SubSeq(log[i].url, Len("https://api.bitbucket.org/1.0/repositories/") + 1,
                     Len(log[i].url))
      resource == Before(After(After(path, "/"), "/"), "/")
  IN  IF resource = "" THEN "repository" ELSE resource

\* a tag name passes the version filter
Eligible(tag, allow_prereleases) ==
  LET v == IF tag # "" /\ Char(tag, 1) = "v" THEN SubSeq(tag, 2, Len(tag)) ELSE tag
  IN  SemVerValid(v) /\ (allow_prereleases \/ IndexOf(v, "-") > Len(v))

EligibleTags(keys) ==
  {keys[i] : i \in {j \in 1..Len(keys) :
                      Eligible(keys[j], self.settings.install_prereleases)}}

\* the tag name without one leading v
WithoutV(tag) ==
  IF tag # "" /\ Char(tag, 1) = "v" THEN SubSeq(tag, 2, Len(tag)) ELSE tag

C2_HighestTag ==
  (Populated /\ op = "download_info" /\ IsTagsUrl(url)) =>
    \E tag \in EligibleTags(Response(1).keys) :
      /\ \A t \in EligibleTags(Response(1).keys) :
           ~SemVerLess(TagVersion(tag), TagVersion(t))
      /\ result.value.value.version = WithoutV(tag)
      /\ log[2].url = "https://api.bitbucket.org/1.0/repositories/"
                        \o TagsOwnerRepo(url) \o "/changesets/" \o tag
      /\ result.value.value.url =
           "https://bitbucket.org/" \o TagsOwnerRepo(url) \o "/get/" \o tag \o ".zip"
      /\ ({Response(1).keys[i] : i \in 1..Len(Response(1).keys)}
            = {"v1.0.0", "v2.0.0", "v1.5.0"}
          /\ ~self.settings.install_prereleases)
         => (tag = "v2.0.0" /\ result.value.value.version = "2.0.0")

\* the example of the claim, with the highest tag neither first nor last
C2_Witness ==
  /\ Populated /\ op = "download_info" /\ IsTagsUrl(url)
  /\ Response(1).keys = <<"v1.0.0", "v2.0.0", "v1.5.0">>
  /\ ~self.settings.install_prereleases
  /\ result.value.value.version = "2.0.0"

(***************************************************************************)
(* C3.  The claim as it stands: for a root or branch URL, date is the      *)
(* first 19 characters of the changeset timestamp, version is date with    *)
(* every '-', ':' and space replaced by '.', version holds digits and dots *)
(* only, and the timestamp 2014-03-12T10:00:00+00:00 gives the version     *)
(* 2014.03.12.10.00.00.                                                    *)
(***************************************************************************)
Untagged == Populated /\ op = "download_info" /\ ~IsTagsUrl(url)

\* the changeset of an untagged download is the last fetch of the call
Changeset == Response(Len(log))

IsPrefixOfLen(p, s, n) ==
  /\ Len(p) = (IF Len(s) < n THEN Len(s) ELSE n)
  /\ \A i \in 1..Len(p) : Char(p, i) = Char(s, i)

Replaced(v, d) ==
  /\ Len(v) = Len(d)
  /\ \A i \in 1..Len(d) :
       Char(v, i) = (IF Char(d, i) \in {"-", ":", " "} THEN "." ELSE Char(d, i))

DigitsAndDots(v) ==
  \A i \in 1..Len(v) : Char(v, i) = "." \/ IsDigit(Char(v, i))

C3_Original ==
  Untagged =>
    /\ IsPrefixOfLen(result.value.value.date, Changeset.timestamp, 19)
    /\ Replaced(result.value.value.version, result.value.value.date)
    /\ DigitsAndDots(result.value.value.version)
    /\ Changeset.timestamp = "2014-03-12T10:00:00+00:00"
         => result.value.value.version = "2014.03.12.10.00.00"

(***************************************************************************)
(* C3, amended: date is the first 19 characters of the timestamp and       *)
(* version is date with every '-', ':' and space replaced by '.' and every *)
(* other character kept, so version holds digits and dots only when date   *)
(* holds nothing but digits, '-', ':' and spaces.  The timestamp           *)
(* 2014-03-12T10:00:00+00:00 gives 2014.03.12T10.00.00; it is the          *)
(* timestamp 2014-03-12 10:00:00+00:00 that gives 2014.03.12.10.00.00.     *)
(***************************************************************************)
C3_TimestampVersion ==
  Untagged =>
    /\ IsPrefixOfLen(result.value.value.date, Changeset.timestamp, 19)
    /\ Replaced(result.value.value.version, result.value.value.date)
    /\ DigitsAndDots(result.value.value.version) <=>
         \A i \in 1..Len(result.value.value.date) :
           \/ IsDigit(Char(result.value.value.date, i))
           \/ Char(result.value.value.date, i) \in {"-", ":", " "}
    /\ Changeset.timestamp = "2014-03-12T10:00:00+00:00"
         => result.value.value.version = "2014.03.12T10.00.00"
    /\ Changeset.timestamp = "2014-03-12 10:00:00+00:00"
         => result.value.value.version = "2014.03.12.10.00.00"

\* an untagged download of a changeset whose timestamp has a T in it
C3_Witness ==
  /\ Untagged
  /\ Changeset.timestamp = "2014-03-12T10:00:00+00:00"
  /\ result.value.value.date = "2014-03-12T10:00:00"

(***************************************************************************)
(* C4, as it stands: repo_info returns None for every URL that neither the *)
(* repo-root nor the branch pattern matches, returns None for every URL    *)
(* of the tag-listing form that download_info accepts, and returns a dict  *)
(* only for the two accepted forms.                                        *)
(***************************************************************************)
C4_Original ==
  (Returned /\ op = "repo_info") =>
    /\ ~(IsRepoUrl(url) \/ IsBranchUrl(url)) => result.value = None
    /\ IsTagsUrl(url) => result.value = None
    /\ result.value # None => (IsRepoUrl(url) \/ IsBranchUrl(url))

(***************************************************************************)
(* C5: a fetch that fails is the last fetch of its call, which ends with   *)
(* that error raised and no value returned; a call raises nothing but the  *)
(* error of its last fetch, and fetches no URL twice.                      *)
(***************************************************************************)
C5_ErrorsPropagate ==
  /\ \A i \in 1..Len(log) :
       IsError(Response(i)) =>
         /\ i = Len(log)
         /\ Done
         /\ result = Raise(Response(i).exc)
  /\ Raised => (Len(log) > 0 /\ IsError(Response(Len(log))))
  /\ \A i, j \in 1..Len(log) : log[i].url = log[j].url => i = j

\* a call whose second fetch failed
C5_Witness ==
  /\ Raised
  /\ Len(log) = 2
  /\ IsError(Response(2))
  /\ ~IsError(Response(1))

(***************************************************************************)
(* C6: the readme of repo_info's result is the raw-content URL             *)
(* https://bitbucket.org/<owner/repo>/raw/<branch>/<path as listed> of the *)
(* first entry of the branch's root listing whose path in lower case is    *)
(* one of the nine readme filenames, and None when there is no such entry. *)
(***************************************************************************)
ReadmeNames ==
  {"readme", "readme.txt", "readme.md", "readme.mkd", "readme.mdown",
   "readme.markdown", "readme.textile", "readme.creole", "readme.rst"}

\* the branch a root or branch URL resolves to in the finished call
ResolvedBranch ==
  IF Kind(1) = "main-branch"
  THEN Response(1).name
  ELSE Before(After(After(After(UrlPath(url), "/"), "/"), "/"), "/")

Matching(files) == {i \in 1..Len(files) : lower(files[i].path) \in ReadmeNames}

FirstMatching(files) ==
  CHOOSE i \in Matching(files) : \A j \in Matching(files) : i <= j

C6_FirstReadme ==
  (Populated /\ op = "repo_info") =>
    LET files == Response(Len(log)).files
    IN  /\ Cardinality(ReadmeNames) = 9
        /\ log[Len(log)].url = "https://api.bitbucket.org/1.0/repositories/"
                                  \o OwnerRepo(url) \o "/src/" \o ResolvedBranch \o "/"
        /\ Matching(files) = {} => result.value.value.readme = None
        /\ Matching(files) # {} =>
             result.value.value.readme =
               Str("https://bitbucket.org/" \o OwnerRepo(url) \o "/raw/"
                     \o ResolvedBranch \o "/" \o files[FirstMatching(files)].path)

\* two readmes are listed and the first, README.MD, is the one returned
C6_Witness ==
  /\ Populated /\ op = "repo_info"
  /\ Response(Len(log)).files = <<[path |-> "README.MD"], [path |-> "readme.rst"]>>
  /\ result.value.value.readme = Str("https://bitbucket.org/u/r/raw/dev/README.MD")

(***************************************************************************)
(* C7: in repo_info's result issues is None when the fetched metadata has  *)
(* issue tracking disabled and https://bitbucket.org/<owner>/<repo>/issues *)
(* of the URL's owner and repo when it is enabled; donate is always given, *)
(* built from the owner of the fetched metadata.                           *)
(***************************************************************************)
Metadata == Response(Len(log) - 1)

C7_IssuesDonate ==
  (Populated /\ op = "repo_info") =>
    /\ Kind(Len(log) - 1) = "repository"
    /\ ~Metadata.has_issues => result.value.value.issues = None
    /\ Metadata.has_issues =>
         result.value.value.issues =
           Str("https://bitbucket.org/" \o OwnerRepo(url) \o "/issues")
    /\ result.value.value.donate =
         "https://www.gittip.com/on/bitbucket/" \o Metadata.owner \o "/"

\* a repository without issue tracking
C7_Witness ==
  /\ Populated /\ op = "repo_info"
  /\ ~Metadata.has_issues
  /\ result.value.value.issues = None
  /\ result.value.value.donate = "https://www.gittip.com/on/bitbucket/owner/"

(***************************************************************************)
(* C8: in repo_info's result description is the fetched description when   *)
(* that is a non-empty string and "No description provided" when it is     *)
(* empty; homepage is the fetched website when that is a non-empty string  *)
(* and the URL as the caller passed it when it is empty.                   *)
(***************************************************************************)
NonEmpty(v) == v.type = "str" /\ v.value # ""

C8_Fallbacks ==
  (Populated /\ op = "repo_info") =>
    /\ NonEmpty(Metadata.description) =>
         result.value.value.description = Metadata.description
    /\ Metadata.description = Str("") =>
         result.value.value.description = Str("No description provided")
    /\ NonEmpty(Metadata.website) =>
         result.value.value.homepage = Metadata.website
    /\ Metadata.website = Str("") => result.value.value.homepage = Str(url)

\* both fields empty, for a URL that ends in a slash
C8_Witness ==
  /\ Populated /\ op = "repo_info"
  /\ url = "http://bitbucket.org/u/r/"
  /\ Metadata.description = Str("")
  /\ Metadata.website = Str("")
  /\ result.value.value.homepage = Str("http://bitbucket.org/u/r/")

(***************************************************************************)
(* C9: a call repeated with the same URL, the same settings and the same   *)
(* upstream responses ends as the first call ended, after the same         *)
(* sequence of fetches.                                                    *)
(***************************************************************************)
C9_Idempotent ==
  (Done /\ earlier # <<>>) =>
    /\ result = earlier[1].result
    /\ log = earlier[1].log

\* a repeated call of three fetches has ended
C9_Witness ==
  /\ Done
  /\ earlier # <<>>
  /\ Len(log) = 3
  /\ Populated

(***************************************************************************)
(* C10, as it stands.  The forms of a URL: the tag-listing form, the bare  *)
(* repo-root form (a repo root that nothing follows) and the branch form.  *)
(* A URL of no form the operation accepts issues no fetch; the main-branch *)
(* fetch is issued exactly for the bare repo-root form, once, first and    *)
(* with prefer_cached; download_info on a tag-listing URL fetches the tag  *)
(* list first and the changeset only if a tag is eligible; a changeset     *)
(* fetch is the last fetch; repo_info fetches the metadata before the      *)
(* listing.                                                                *)
(***************************************************************************)
BareRoot(u) == IsRepoUrl(u) /\ ~IsTagsUrl(u)

Accepted(o, u) ==
  BareRoot(u) \/ IsBranchUrl(u) \/ (o = "download_info" /\ IsTagsUrl(u))

C10_Original ==
  /\ (op # "none" /\ ~Accepted(op, url)) => log = <<>>
  /\ \A i \in 1..Len(log) :
       /\ (Kind(i) = "main-branch") <=> (i = 1 /\ BareRoot(url))
       /\ Kind(i) = "main-branch" => log[i].prefer_cached
       /\ Kind(i) = "changesets" => (i = Len(log) /\ op = "download_info")
       /\ Kind(i) = "tags" => (i = 1 /\ op = "download_info" /\ IsTagsUrl(url))
       /\ Kind(i) = "src" => (i > 1 /\ Kind(i - 1) = "repository")
  /\ (op = "download_info" /\ IsTagsUrl(url) /\ Len(log) >= 1) =>
       /\ Kind(1) = "tags"
       /\ Len(log) >= 2 => EligibleTags(Response(1).keys) # {}
       /\ result = Return(False) => Len(log) = 1
  /\ (Populated /\ op = "download_info") => Kind(Len(log)) = "changesets"
  /\ (Populated /\ op = "repo_info") => Kind(Len(log)) = "src"

====
